---------------------------- MODULE Spec2Model ----------------------------
(***************************************************************************)
(* Model of the clip sampler (ClipGenerator, video_export.py) and of the   *)
(* smart boundary resolver (SmartBoundaryFinder, video_analysis.py) of     *)
(* shorts_maker.                                                           *)
(*                                                                         *)
(* Times are integers (ticks).  random.uniform(0, max_start) is modelled   *)
(* as a nondeterministic choice of a tick in 0..max_start; floating-point  *)
(* rounding of start + duration is outside the model.                      *)
(***************************************************************************)
EXTENDS Integers, Sequences, FiniteSets, TLC

VARIABLES
    \* ---- ClipGenerator.generate_*_clips: arguments, locals, result ----
    video_duration,     \* argument video_duration
    num_clips,          \* argument num_clips
    duration,           \* argument duration (the fixed clip length)
    allow_overlap,      \* which of the two generators is running
    clips,              \* local list clips, in append order
    attempts,           \* local attempts (non-overlapping generator)
    pc,                 \* "idle" | "loop" | "done"
    generated_clips,    \* the returned list
    \* ---- SmartBoundaryFinder.find_smart_boundary: arguments, result ----
    time_point,
    scenes,
    speech_boundaries,
    enable_smart_cuts,
    priority,
    max_adjustment,
    boundary_type,
    rpc,                \* "idle" | "call" | "returned"
    resolved,           \* the returned time
    \* ---- VideoClipExtractor (main.py): the application state ----
    self_video_path,            \* self.video_path
    self_video_duration,        \* self.video_duration
    self_clips,                 \* self.clips
    self_scenes,                \* self.scenes
    self_speech_boundaries,     \* self.speech_boundaries
    ui,                 \* the widget values the last handler read
    outcome,            \* the message or label the last handler ended with
    \* ---- AnalysisThread.detect_speech_boundaries: input, locals, result ----
    is_speech,                  \* the array is_speech, one entry per frame
    raw_speech_boundaries,      \* the local list speech_boundaries (frames)
    filtered_boundaries,        \* the returned list (frames)
    dpc,                \* "idle" | "call" | "returned"
    \* ---- the smart adjustment loop of generate_clips ----
    adjusted_clips,     \* the local list adjusted_clips
    apc,                \* "idle" | "call" | "done"
    \* ---- the worker threads of the application ----
    analysis_threads,   \* the AnalysisThread objects that are running
    analysis_result,    \* the dict the last finished signal carried
    export_threads,     \* the ExportThread objects that are running or done
    crashed             \* the process was aborted

samplerVars == <<video_duration, num_clips, duration, allow_overlap, clips,
                 attempts, pc, generated_clips>>
resolverVars == <<time_point, scenes, speech_boundaries, enable_smart_cuts,
                  priority, max_adjustment, boundary_type, rpc, resolved>>
appVars == <<self_video_path, self_video_duration, self_clips, self_scenes,
             self_speech_boundaries, ui, outcome>>
detectorVars == <<is_speech, raw_speech_boundaries, filtered_boundaries, dpc>>
adjustVars == <<adjusted_clips, apc>>
threadVars == <<analysis_threads, analysis_result, export_threads, crashed>>
workerVars == <<detectorVars, adjustVars, threadVars>>
vars == <<samplerVars, resolverVars, appVars, workerVars>>

-----------------------------------------------------------------------------
(* Bounds of the model *)
MaxVideoDuration == 15
MaxClipDuration == 6
MaxNumClips == 3
DrawStepC3 == 8
MaxTime == 3
MaxScenes == 2
MaxSpeech == 2
MaxAdjust == 2
LongVideoDuration == 10
ShortVideoDuration == 6
MaxRequested == 2
MaxClips == 2
MaxAdjustmentSpin == 3
CutStep == 5
DrawStepApp == 3
ManualStep == 4

(* Program constants *)
ClipDurationMin == 5
NumClipsMin == 1
MaxAdjustmentMin == 1
AttemptsPerClip == 20

-----------------------------------------------------------------------------
(* Helpers *)
Abs(x) == IF x < 0 THEN 0 - x ELSE x

Range(s) == {s[k] : k \in 1..Len(s)}

\* list.sort(key=lambda x: x[0]) is stable: an element is placed after every
\* element already present whose key is less than or equal to its own.
RECURSIVE InsertByStart(_, _)
InsertByStart(c, s) ==
    IF s = <<>> THEN <<c>>
    ELSE IF s[Len(s)][1] <= c[1] THEN Append(s, c)
    ELSE Append(InsertByStart(c, SubSeq(s, 1, Len(s) - 1)), s[Len(s)])

RECURSIVE SortByStartFrom(_, _)
SortByStartFrom(s, acc) ==
    IF s = <<>> THEN acc
    ELSE SortByStartFrom(Tail(s), InsertByStart(Head(s), acc))

SortByStart(s) == SortByStartFrom(s, <<>>)

-----------------------------------------------------------------------------
(* ClipGenerator *)

MaxStart(vd, d) == vd - d

\* a variant that lets a window of exactly the timeline's length through
Infeasible_Strict(max_start) == max_start < 0

\* the infeasibility test "if max_start <= 0"
Infeasible(max_start) == max_start <= 0

\* a variant that draws up to one tick past max_start
UniformDraws_PastEnd(max_start) == 0..(max_start + 1)

\* the outcomes of random.uniform(0, max_start)
UniformDraws(max_start) == 0..max_start

\* the window built from a drawn start
Window(start, d) == <<start, start + d, "">>

\* a variant with half the attempt budget
MaxAttempts_Ten(n) == n * 10

\* max_attempts = num_clips * 20
MaxAttempts(n) == n * AttemptsPerClip

\* a variant that only tests whether the new start falls in an accepted window
Overlaps_StartOnly(start, end, cs) ==
    \E k \in 1..Len(cs) : cs[k][1] <= start /\ start < cs[k][2]

\* the inner for loop of the non-overlapping generator
Overlaps(start, end, cs) ==
    \E k \in 1..Len(cs) : ~(end <= cs[k][1] \/ start >= cs[k][2])

\* a variant that allows one attempt too many
WhileCond_OffByOne(cs, n, att) == Len(cs) < n /\ att <= n * AttemptsPerClip

\* the while condition of the non-overlapping generator
WhileCond(cs, n, att) == Len(cs) < n /\ att < MaxAttempts(n)

\* what the generators return
Returned(cs) == SortByStart(cs)

SamplerIdle ==
    /\ video_duration = 0 /\ num_clips = 0 /\ duration = 0
    /\ allow_overlap = FALSE /\ clips = <<>> /\ attempts = 0
    /\ pc = "idle" /\ generated_clips = <<>>

ResolverIdle ==
    /\ time_point = 0 /\ scenes = <<>> /\ speech_boundaries = <<>>
    /\ enable_smart_cuts = FALSE /\ priority = "" /\ max_adjustment = 0
    /\ boundary_type = "start" /\ rpc = "idle" /\ resolved = 0

\* no file: self.video_path = None (falsy, as the empty path is)
NoVideo == <<>>

\* a text of the start field: nothing, "MM:SS", a number, "nan", "H:MM:SS",
\* a word
Text(kind, a, b) == [kind |-> kind, a |-> a, b |-> b]

\* the widget values behind the last change of self.clips; these are the
\* values of a handler that changed nothing
UiUnread == [mode |-> "", scene_detection |-> FALSE, audio_detection |-> FALSE,
             max_adjustment |-> 0, time_text |-> Text("unread", 0, 0),
             clip_duration |-> 0]

\* no detector call, no adjustment loop, no thread: self.analysis_thread and
\* self.export_thread are None
NoResult == [scenes |-> <<>>, speech_boundaries |-> <<>>, error |-> FALSE]

DetectorIdle ==
    /\ is_speech = <<>> /\ raw_speech_boundaries = <<>>
    /\ filtered_boundaries = <<>> /\ dpc = "idle"

AdjustIdle == adjusted_clips = <<>> /\ apc = "idle"

ThreadsIdle ==
    /\ analysis_threads = <<>> /\ analysis_result = NoResult
    /\ export_threads = <<>> /\ crashed = FALSE

WorkerIdle == DetectorIdle /\ AdjustIdle /\ ThreadsIdle

\* VideoClipExtractor.__init__
AppIdle ==
    /\ self_video_path = NoVideo /\ self_video_duration = 0
    /\ self_clips = <<>>
    /\ self_scenes = <<>> /\ self_speech_boundaries = <<>>
    /\ ui = UiUnread /\ outcome = <<"__init__", "Started">>

\* a call of one of the two generators with arguments in the model's bounds
InitSampler ==
    /\ video_duration \in 0..MaxVideoDuration
    /\ num_clips \in NumClipsMin..MaxNumClips
    /\ duration \in ClipDurationMin..MaxClipDuration
    /\ allow_overlap \in BOOLEAN
    /\ clips = <<>> /\ attempts = 0 /\ pc = "loop" /\ generated_clips = <<>>
    /\ ResolverIdle
    /\ AppIdle
    /\ WorkerIdle

\* generate_overlapping_clips: "if max_start <= 0: return clips"
OverlapInfeasible ==
    /\ pc = "loop" /\ allow_overlap
    /\ Infeasible(MaxStart(video_duration, duration))
    /\ generated_clips' = clips
    /\ pc' = "done"
    /\ UNCHANGED <<video_duration, num_clips, duration, allow_overlap, clips, attempts>>
    /\ UNCHANGED resolverVars
    /\ UNCHANGED appVars
    /\ UNCHANGED workerVars

\* generate_overlapping_clips: one iteration of "for i in range(num_clips)"
OverlapDraw ==
    /\ pc = "loop" /\ allow_overlap
    /\ ~Infeasible(MaxStart(video_duration, duration))
    /\ Len(clips) < num_clips
    /\ \E start \in UniformDraws(MaxStart(video_duration, duration)) :
          clips' = Append(clips, Window(start, duration))
    /\ UNCHANGED <<video_duration, num_clips, duration, allow_overlap, attempts,
                   pc, generated_clips>>
    /\ UNCHANGED resolverVars
    /\ UNCHANGED appVars
    /\ UNCHANGED workerVars

\* generate_overlapping_clips: the loop is over; sort and return
OverlapReturn ==
    /\ pc = "loop" /\ allow_overlap
    /\ ~Infeasible(MaxStart(video_duration, duration))
    /\ Len(clips) >= num_clips
    /\ generated_clips' = Returned(clips)
    /\ pc' = "done"
    /\ UNCHANGED <<video_duration, num_clips, duration, allow_overlap, clips, attempts>>
    /\ UNCHANGED resolverVars
    /\ UNCHANGED appVars
    /\ UNCHANGED workerVars

\* generate_non_overlapping_clips: an iteration that ends in "break";
\* the sort and the return follow
NonOverlapBreak ==
    /\ pc = "loop" /\ ~allow_overlap
    /\ WhileCond(clips, num_clips, attempts)
    /\ Infeasible(MaxStart(video_duration, duration))
    /\ attempts' = attempts + 1
    /\ generated_clips' = Returned(clips)
    /\ pc' = "done"
    /\ UNCHANGED <<video_duration, num_clips, duration, allow_overlap, clips>>
    /\ UNCHANGED resolverVars
    /\ UNCHANGED appVars
    /\ UNCHANGED workerVars

\* generate_non_overlapping_clips: one iteration of the while loop in which
\* start is drawn
NonOverlapAttempt(start) ==
    /\ pc = "loop" /\ ~allow_overlap
    /\ WhileCond(clips, num_clips, attempts)
    /\ ~Infeasible(MaxStart(video_duration, duration))
    /\ attempts' = attempts + 1
    /\ clips' = IF Overlaps(start, start + duration, clips)
                THEN clips
                ELSE Append(clips, Window(start, duration))
    /\ UNCHANGED <<video_duration, num_clips, duration, allow_overlap, pc, generated_clips>>
    /\ UNCHANGED resolverVars
    /\ UNCHANGED appVars
    /\ UNCHANGED workerVars

NonOverlapDraw ==
    \E start \in UniformDraws(MaxStart(video_duration, duration)) :
        NonOverlapAttempt(start)

\* generate_non_overlapping_clips: the while condition is false; sort and return
NonOverlapReturn ==
    /\ pc = "loop" /\ ~allow_overlap
    /\ ~WhileCond(clips, num_clips, attempts)
    /\ generated_clips' = Returned(clips)
    /\ pc' = "done"
    /\ UNCHANGED <<video_duration, num_clips, duration, allow_overlap, clips, attempts>>
    /\ UNCHANGED resolverVars
    /\ UNCHANGED appVars
    /\ UNCHANGED workerVars

NextSampler ==
    \/ OverlapInfeasible
    \/ OverlapDraw
    \/ OverlapReturn
    \/ NonOverlapBreak
    \/ NonOverlapDraw
    \/ NonOverlapReturn

SpecSampler == InitSampler /\ [][NextSampler]_vars

\* calls of generate_non_overlapping_clips only
InitNonOverlap == InitSampler /\ ~allow_overlap

NextNonOverlap ==
    \/ NonOverlapBreak
    \/ NonOverlapDraw
    \/ NonOverlapReturn

\* each loop iteration is a step of straight-line code: the loop keeps running
FairNonOverlap ==
    InitNonOverlap /\ [][NextNonOverlap]_vars /\ WF_vars(NextNonOverlap)


-----------------------------------------------------------------------------
(* The scenario generate_non_overlapping_clips(100, 5, 10).  The draws are  *)
(* the outcomes of random.uniform on a grid of DrawStepC3 ticks, which is   *)
(* finer than the clip length, so that drawn windows can overlap partly.    *)

GridDraws(max_start) == {s \in UniformDraws(max_start) : s % DrawStepC3 = 0}

InitC3 ==
    /\ video_duration = 100 /\ num_clips = 5 /\ duration = 10
    /\ allow_overlap = FALSE
    /\ clips = <<>> /\ attempts = 0 /\ pc = "loop" /\ generated_clips = <<>>
    /\ ResolverIdle
    /\ AppIdle
    /\ WorkerIdle

NonOverlapGridDraw ==
    \E start \in GridDraws(MaxStart(video_duration, duration)) :
        NonOverlapAttempt(start)

NextC3 ==
    \/ NonOverlapGridDraw
    \/ NonOverlapReturn

SpecC3 == InitC3 /\ [][NextC3]_vars

-----------------------------------------------------------------------------
(* Properties of the sampler *)

\* a returned window lies in the timeline and has the fixed length
ValidWindow(w) ==
    /\ 0 <= w[1] /\ w[1] < w[2] /\ w[2] <= video_duration
    /\ w[2] - w[1] = duration

SortedByStart(s) == \A k \in 1..(Len(s) - 1) : s[k][1] <= s[k + 1][1]

PairwiseDisjoint(s) ==
    \A j, k \in 1..Len(s) : j # k => (s[j][2] <= s[k][1] \/ s[k][2] <= s[j][1])

C3_AlwaysFive ==
    pc = "done" =>
        /\ Len(generated_clips) = 5
        /\ PairwiseDisjoint(generated_clips)

\* C3 as amended: generate_non_overlapping_clips(100, 5, 10) returns between 1
\* and 5 pairwise disjoint windows, and fewer than 5 only when all 100 draw
\* attempts were used.
C3_FiveOrBudgetSpent ==
    pc = "done" =>
        /\ Len(generated_clips) >= 1 /\ Len(generated_clips) <= 5
        /\ PairwiseDisjoint(generated_clips)
        /\ \A k \in 1..Len(generated_clips) : ValidWindow(generated_clips[k])
        /\ (Len(generated_clips) < 5 => attempts = 100)

\* five disjoint windows were returned although some draws were rejected
C3_Witness ==
    /\ pc = "done"
    /\ video_duration = 100 /\ num_clips = 5 /\ duration = 10
    /\ Len(generated_clips) = 5
    /\ attempts > 5 /\ attempts < 100

\* C4: generate_non_overlapping_clips terminates; it makes at most count x 20
\* draw attempts, makes no attempt once count windows are accepted, and
\* returns at most count windows.
C4_BoundedAttempts ==
    /\ [](~allow_overlap =>
            /\ attempts <= 20 * num_clips
            /\ Len(clips) <= num_clips
            /\ (pc = "done" => Len(generated_clips) <= num_clips))
    /\ [][(~allow_overlap /\ Len(clips) = num_clips) =>
            (attempts' = attempts /\ clips' = clips /\ pc' = "done")]_vars
    /\ <>(pc = "done")

\* the attempt budget ran out before count windows were accepted
C4_Witness ==
    /\ pc = "done" /\ ~allow_overlap
    /\ duration < video_duration
    /\ attempts = 20 * num_clips
    /\ Len(generated_clips) < num_clips
    /\ Len(generated_clips) >= 1

\* C5: when duration - fixedLength <= 0 both generators return an empty
\* sequence for every count, and neither gets stuck on the way.
C5_InfeasibleEmpty ==
    (video_duration - duration <= 0) =>
        /\ (pc = "done" => generated_clips = <<>>)
        /\ (pc = "loop" => ENABLED NextSampler)
        /\ clips = <<>>

\* the non-overlapping generator returned for duration = fixedLength
C5_Witness ==
    /\ pc = "done" /\ ~allow_overlap
    /\ video_duration = duration
    /\ num_clips = 3
    /\ generated_clips = <<>>


-----------------------------------------------------------------------------
(* SmartBoundaryFinder *)

ScenePriority == "Scene Changes First"
SpeechPriority == "Speech Boundaries First"
NearestEither == "Nearest Boundary (either)"
SceneStartSpeechEnd == "Scene Start + Speech End"

\* the priority strings the four policies are matched against, and the two
\* strings main.py passes
Priorities ==
    {ScenePriority, SpeechPriority, NearestEither, SceneStartSpeechEnd,
     "Scenes", "Speech"}

\* a variant that never looks at the enable flag
EarlyReturn_IgnoresFlag(enable, sc, sp) == sc = <<>> /\ sp = <<>>

\* "if not enable_smart_cuts" and "if not scenes and not speech_boundaries"
EarlyReturn(enable, sc, sp) == ~enable \/ (sc = <<>> /\ sp = <<>>)

\* the list scene_boundaries built by the for loop over scenes
SceneBoundaries(sc, bt) ==
    [k \in 1..Len(sc) |-> IF bt = "start" THEN sc[k][1] ELSE sc[k][2]]

\* a variant that lets a boundary one tick beyond the tolerance through
WithinAdjustment_Loose(s, t, m) == Abs(s - t) <= m + 1

\* the filter "abs(s - time_point) <= max_adjustment"
WithinAdjustment(s, t, m) == Abs(s - t) <= m

\* [s for s in bs if abs(s - time_point) <= max_adjustment]
Nearby(bs, t, m) == SelectSeq(bs, LAMBDA s : WithinAdjustment(s, t, m))

\* a variant of the scan that keeps the last element whose key is smallest
RECURSIVE MinFrom_Last(_, _, _)
MinFrom_Last(bs, t, best) ==
    IF bs = <<>> THEN best
    ELSE MinFrom_Last(Tail(bs), t,
                      IF Abs(Head(bs) - t) <= Abs(best - t) THEN Head(bs) ELSE best)

\* min(bs, key=lambda x: abs(x - time_point)) scans left to right and keeps
\* the first element whose key is smallest
RECURSIVE MinFrom(_, _, _)
MinFrom(bs, t, best) ==
    IF bs = <<>> THEN best
    ELSE MinFrom(Tail(bs), t,
                 IF Abs(Head(bs) - t) < Abs(best - t) THEN Head(bs) ELSE best)

NearestTo(bs, t) == MinFrom(Tail(bs), t, Head(bs))

\* a variant without the fallback to speech boundaries
ScenesFirst_NoFallback(ns, np, t) ==
    IF ns # <<>> THEN NearestTo(ns, t) ELSE t

\* priority == "Scene Changes First"
ScenesFirst(ns, np, t) ==
    IF ns # <<>> THEN NearestTo(ns, t)
    ELSE IF np # <<>> THEN NearestTo(np, t)
    ELSE t

\* priority == "Speech Boundaries First"
SpeechFirst(ns, np, t) ==
    IF np # <<>> THEN NearestTo(np, t)
    ELSE IF ns # <<>> THEN NearestTo(ns, t)
    ELSE t

\* a variant that concatenates the speech candidates first
NearestOfBoth_SpeechFirst(ns, np, t) ==
    LET all_boundaries == np \o ns
    IN  IF all_boundaries # <<>> THEN NearestTo(all_boundaries, t) ELSE t

\* priority == "Nearest Boundary (either)"
NearestOfBoth(ns, np, t) ==
    LET all_boundaries == ns \o np
    IN  IF all_boundaries # <<>> THEN NearestTo(all_boundaries, t) ELSE t

\* a variant that always takes the nearest candidate of both lists
SceneStartOrSpeechEnd_Plain(ns, np, t, bt) ==
    LET all_boundaries == ns \o np
    IN  IF all_boundaries # <<>> THEN NearestTo(all_boundaries, t) ELSE t

\* priority == "Scene Start + Speech End"
SceneStartOrSpeechEnd(ns, np, t, bt) ==
    IF bt = "start" /\ ns # <<>> THEN NearestTo(ns, t)
    ELSE IF bt = "end" /\ np # <<>> THEN NearestTo(np, t)
    ELSE LET all_boundaries == ns \o np
         IN  IF all_boundaries # <<>> THEN NearestTo(all_boundaries, t) ELSE t

find_smart_boundary(t, sc, sp, enable, prio, m, bt) ==
    IF EarlyReturn(enable, sc, sp) THEN t
    ELSE LET nearby_scenes == Nearby(SceneBoundaries(sc, bt), t, m)
             nearby_speech == Nearby(sp, t, m)
         IN  IF prio = ScenePriority THEN ScenesFirst(nearby_scenes, nearby_speech, t)
             ELSE IF prio = SpeechPriority THEN SpeechFirst(nearby_scenes, nearby_speech, t)
             ELSE IF prio = NearestEither THEN NearestOfBoth(nearby_scenes, nearby_speech, t)
             ELSE IF prio = SceneStartSpeechEnd
                  THEN SceneStartOrSpeechEnd(nearby_scenes, nearby_speech, t, bt)
             ELSE t

(* The arguments of the calls the model explores *)
Times == 0..MaxTime

ScenePairs == {p \in Times \X Times : p[1] < p[2]}

\* scene lists as the detector reports them: ordered, not overlapping
SceneLists ==
    UNION {{sq \in [1..n -> ScenePairs] :
               \A k \in 1..(n - 1) : sq[k][2] <= sq[k + 1][1]} : n \in 0..MaxScenes}

\* speech boundary lists in any order, without repeated values
SpeechLists ==
    UNION {{sq \in [1..n -> Times] :
               \A j, k \in 1..n : j # k => sq[j] # sq[k]} : n \in 0..MaxSpeech}

\* the scenario of the specification, in ticks of a tenth of a second
ExampleScenes == <<<<0, 50>>, <<50, 120>>>>
ExampleSpeech == <<48, 119>>

InitResolverBounded ==
    /\ time_point \in Times
    /\ scenes \in SceneLists
    /\ speech_boundaries \in SpeechLists
    /\ enable_smart_cuts \in BOOLEAN
    /\ priority \in Priorities
    /\ max_adjustment \in MaxAdjustmentMin..MaxAdjust
    /\ boundary_type \in {"start", "end"}

InitResolverExample ==
    /\ time_point = 52
    /\ scenes = ExampleScenes
    /\ speech_boundaries = ExampleSpeech
    /\ enable_smart_cuts = TRUE
    /\ priority \in {ScenePriority, SpeechPriority}
    /\ max_adjustment = 10
    /\ boundary_type = "start"

InitResolver ==
    /\ SamplerIdle
    /\ AppIdle
    /\ WorkerIdle
    /\ rpc = "call" /\ resolved = 0
    /\ (InitResolverBounded \/ InitResolverExample)

\* one call of SmartBoundaryFinder.find_smart_boundary
Resolve ==
    /\ rpc = "call"
    /\ resolved' = find_smart_boundary(time_point, scenes, speech_boundaries,
                                       enable_smart_cuts, priority,
                                       max_adjustment, boundary_type)
    /\ rpc' = "returned"
    /\ UNCHANGED <<time_point, scenes, speech_boundaries, enable_smart_cuts,
                   priority, max_adjustment, boundary_type>>
    /\ UNCHANGED samplerVars
    /\ UNCHANGED appVars
    /\ UNCHANGED workerVars

NextResolver == Resolve

SpecResolver == InitResolver /\ [][NextResolver]_vars

-----------------------------------------------------------------------------
(* Properties of the resolver, stated over the arguments and the result *)

\* the scene edges of the requested kind, and the speech boundaries
SceneCandidates ==
    {IF boundary_type = "start" THEN scenes[k][1] ELSE scenes[k][2] :
        k \in 1..Len(scenes)}

SpeechCandidates == {speech_boundaries[k] : k \in 1..Len(speech_boundaries)}

Distance(c) == IF c >= time_point THEN c - time_point ELSE time_point - c

InTolerance(c) ==
    time_point - max_adjustment <= c /\ c <= time_point + max_adjustment

ScenesInTolerance == {c \in SceneCandidates : InTolerance(c)}

SpeechInTolerance == {c \in SpeechCandidates : InTolerance(c)}

IsNearestOf(r, S) == r \in S /\ \A c \in S : Distance(r) <= Distance(c)

\* C6: the resolver returns t unchanged when the policy is disabled, whatever
\* the boundary data, priority, tolerance and kind, and when scenes and speech
\* boundaries are both empty.
C6_DisabledReturnsInput ==
    (rpc = "returned" /\
     (~enable_smart_cuts \/ (scenes = <<>> /\ speech_boundaries = <<>>))) =>
        resolved = time_point

\* the policy is disabled while a scene boundary other than t is in tolerance
C6_Witness ==
    /\ rpc = "returned" /\ ~enable_smart_cuts
    /\ priority = ScenePriority
    /\ ScenesInTolerance # {}
    /\ time_point \notin (SceneCandidates \cup SpeechCandidates)
    /\ resolved = time_point

\* C7: under ScenePriority the result is the nearest scene boundary of the
\* requested kind within maxAdjustment if there is one, else the nearest speech
\* boundary within maxAdjustment, else t; SpeechPriority is the mirror image.
\* With scenes (0,5),(5,12), speech 4.8, 11.9, t = 5.2, kind start and
\* maxAdjustment 1.0, ScenePriority gives 5.0 and SpeechPriority gives 4.8.
C7_PriorityOrder ==
    (rpc = "returned" /\ enable_smart_cuts) =>
        /\ priority = ScenePriority =>
              IF ScenesInTolerance # {} THEN IsNearestOf(resolved, ScenesInTolerance)
              ELSE IF SpeechInTolerance # {} THEN IsNearestOf(resolved, SpeechInTolerance)
              ELSE resolved = time_point
        /\ priority = SpeechPriority =>
              IF SpeechInTolerance # {} THEN IsNearestOf(resolved, SpeechInTolerance)
              ELSE IF ScenesInTolerance # {} THEN IsNearestOf(resolved, ScenesInTolerance)
              ELSE resolved = time_point
        /\ (scenes = <<<<0, 50>>, <<50, 120>>>> /\ speech_boundaries = <<48, 119>>
            /\ time_point = 52 /\ boundary_type = "start" /\ max_adjustment = 10) =>
              /\ priority = ScenePriority => resolved = 50
              /\ priority = SpeechPriority => resolved = 48

\* the scenario of the claim under SpeechPriority
C7_Witness ==
    /\ rpc = "returned" /\ enable_smart_cuts
    /\ scenes = <<<<0, 50>>, <<50, 120>>>> /\ speech_boundaries = <<48, 119>>
    /\ time_point = 52 /\ boundary_type = "start" /\ max_adjustment = 10
    /\ priority = SpeechPriority
    /\ resolved = 48

\* C8: under NearestEither the result is the candidate closest to t among the
\* scene boundaries of the requested kind and the speech boundaries within
\* maxAdjustment (t if there is none); when a scene candidate and a speech
\* candidate are equidistant, the scene candidate is returned.
C8_NearestEither ==
    (rpc = "returned" /\ enable_smart_cuts /\ priority = NearestEither) =>
        LET both == ScenesInTolerance \cup SpeechInTolerance
        IN  IF both = {} THEN resolved = time_point
            ELSE /\ IsNearestOf(resolved, both)
                 /\ (\E c \in ScenesInTolerance : IsNearestOf(c, both)) =>
                        resolved \in ScenesInTolerance

\* a scene candidate above t and a speech candidate below t are equidistant
\* and the scene candidate is returned
C8_Witness ==
    /\ rpc = "returned" /\ enable_smart_cuts /\ priority = NearestEither
    /\ \E c \in ScenesInTolerance, d \in SpeechInTolerance :
          /\ d < time_point /\ time_point < c
          /\ Distance(c) = Distance(d)
          /\ IsNearestOf(c, ScenesInTolerance \cup SpeechInTolerance)
          /\ resolved = c
          /\ c \notin SpeechCandidates

\* C9: under SceneStartSpeechEnd, for kind start the nearest scene start within
\* maxAdjustment is returned if there is one, even when a speech boundary is
\* closer; for kind end the nearest speech boundary within maxAdjustment is
\* returned if there is one, even when a scene end is closer; otherwise the
\* result is the nearest candidate of both sets (t if both are empty).
C9_SceneStartSpeechEnd ==
    (rpc = "returned" /\ enable_smart_cuts /\ priority = SceneStartSpeechEnd) =>
        LET both == ScenesInTolerance \cup SpeechInTolerance
        IN  IF boundary_type = "start" /\ ScenesInTolerance # {}
                THEN IsNearestOf(resolved, ScenesInTolerance)
            ELSE IF boundary_type = "end" /\ SpeechInTolerance # {}
                THEN IsNearestOf(resolved, SpeechInTolerance)
            ELSE IF both = {} THEN resolved = time_point
            ELSE IsNearestOf(resolved, both)

\* for kind end a speech boundary is returned although a scene end is closer
C9_Witness ==
    /\ rpc = "returned" /\ enable_smart_cuts /\ priority = SceneStartSpeechEnd
    /\ boundary_type = "end"
    /\ resolved \in SpeechInTolerance
    /\ \E c \in ScenesInTolerance : Distance(c) < Distance(resolved)

\* the position in the candidate sequence cs that nearestWithin selects: the
\* first one in tolerance that no other one in tolerance beats
FirstNearestIndex(cs, i) ==
    /\ i \in 1..Len(cs)
    /\ InTolerance(cs[i])
    /\ \A j \in 1..Len(cs) : InTolerance(cs[j]) => Distance(cs[i]) <= Distance(cs[j])
    /\ \A j \in 1..(i - 1) : InTolerance(cs[j]) => Distance(cs[j]) > Distance(cs[i])

\* C10: nearestWithin returns a candidate within maxAdjustment (a distance of
\* exactly maxAdjustment qualifies) that minimises the distance to t, the first
\* of the input sequence among equidistant ones, and nothing when no candidate
\* is within maxAdjustment.  Observed on the speech boundaries under
\* SpeechPriority and on the scene boundaries under ScenePriority.
C10_NearestWithin ==
    (rpc = "returned" /\ enable_smart_cuts) =>
        /\ priority = SpeechPriority =>
              /\ (\E k \in 1..Len(speech_boundaries) : InTolerance(speech_boundaries[k])) =>
                    \E i \in 1..Len(speech_boundaries) :
                        /\ FirstNearestIndex(speech_boundaries, i)
                        /\ resolved = speech_boundaries[i]
              /\ (SpeechInTolerance = {} /\ ScenesInTolerance = {}) =>
                    resolved = time_point
        /\ priority = ScenePriority =>
              LET cs == [k \in 1..Len(scenes) |->
                            IF boundary_type = "start" THEN scenes[k][1] ELSE scenes[k][2]]
              IN  /\ (\E k \in 1..Len(cs) : InTolerance(cs[k])) =>
                        \E i \in 1..Len(cs) :
                            FirstNearestIndex(cs, i) /\ resolved = cs[i]
                  /\ (SpeechInTolerance = {} /\ ScenesInTolerance = {}) =>
                        resolved = time_point

\* two speech boundaries at distance exactly maxAdjustment, the larger one
\* first in the sequence, and the first one is returned
C10_Witness ==
    /\ rpc = "returned" /\ enable_smart_cuts /\ priority = SpeechPriority
    /\ Len(speech_boundaries) = 2
    /\ speech_boundaries[1] = time_point + max_adjustment
    /\ speech_boundaries[2] = time_point - max_adjustment
    /\ resolved = speech_boundaries[1]

-----------------------------------------------------------------------------
(* VideoClipExtractor (main.py): helpers *)

\* the decimal digits of a natural number
RECURSIVE Digits(_)
Digits(i) == IF i < 10 THEN <<i>> ELSE Append(Digits(i \div 10), i % 10)

\* the format specification 04d: zero-padded on the left to four digits
RECURSIVE Pad4(_)
Pad4(ds) == IF Len(ds) >= 4 THEN ds ELSE Pad4(<<0>> \o ds)

\* f"{base_name}_{i:04d}"
ClipName(base, i) == <<base, Pad4(Digits(i))>>

\* the files the user can drop: <<stem, extension>>
Files == {<<"a", ".mp4">>, <<"b", ".MP4">>, <<"broken", ".mp4">>, <<"notes", ".txt">>}

ValidExtensions == {".mp4", ".avi", ".mov", ".mkv", ".flv", ".wmv", ".webm"}

\* str.lower() on the extensions of Files
Lower(ext) == IF ext = ".MP4" THEN ".mp4" ELSE ext

\* utils.is_valid_video_file
is_valid_video_file(file_path) == Lower(file_path[2]) \in ValidExtensions

\* the files VideoFileClip can open
Readable(file_path) == file_path[1] # "broken"

\* the length int(video.duration) that the probe reports for a file
VideoLength(file_path) ==
    IF file_path[1] = "a" THEN LongVideoDuration ELSE ShortVideoDuration

\* the widget values a handler can find
\* what a handler read of the method combo box, the two checkboxes and the
\* tolerance spin box: the last three are read by find_smart_boundary, in
\* Smart mode only
UiRead(u, smart_called) ==
    IF smart_called THEN u ELSE [UiUnread EXCEPT !.mode = u.mode]

\* the values of those widgets a handler can find; in Random mode only the
\* method combo box is ever read
UiChoices ==
    {[UiUnread EXCEPT !.mode = "Random"]} \cup
    {[UiUnread EXCEPT !.mode = "Smart", !.scene_detection = sd,
                      !.audio_detection = ad, !.max_adjustment = MaxAdjustmentSpin] :
        sd \in BOOLEAN, ad \in BOOLEAN}

\* what add_manual_clip read of the start field and the clip length spin box
ManualRead(u, time_text, clip_duration) ==
    [u EXCEPT !.time_text = time_text, !.clip_duration = clip_duration]

\* "Determine priority based on enabled analysis types"
AppPriority(scene_checked, audio_checked) ==
    IF scene_checked /\ audio_checked THEN "Scenes"
    ELSE IF scene_checked THEN "Scenes"
    ELSE IF audio_checked THEN "Speech"
    ELSE "Scenes"

\* VideoClipExtractor.find_smart_boundary
self_find_smart_boundary(t, bt, u, sc, sp) ==
    IF u.mode # "Smart" THEN t
    ELSE find_smart_boundary(t, sc, sp, TRUE,
                             AppPriority(u.scene_detection, u.audio_detection),
                             u.max_adjustment, bt)

\* "Ensure valid clip": if smart_end > smart_start
KeepAdjusted(smart_start, smart_end) == smart_end > smart_start

\* the loop "for start, end, _ in generated_clips" of generate_clips
RECURSIVE AdjustedClips(_, _, _, _)
AdjustedClips(gen, u, sc, sp) ==
    IF gen = <<>> THEN <<>>
    ELSE LET smart_start == self_find_smart_boundary(Head(gen)[1], "start", u, sc, sp)
             smart_end == self_find_smart_boundary(Head(gen)[2], "end", u, sc, sp)
             rest == AdjustedClips(Tail(gen), u, sc, sp)
         IN  IF KeepAdjusted(smart_start, smart_end)
             THEN <<<<smart_start, smart_end, "">>>> \o rest
             ELSE rest

\* "if mode == 'Smart' and (self.scenes or self.speech_boundaries)"
SmartApplies(u, sc, sp) == u.mode = "Smart" /\ (sc # <<>> \/ sp # <<>>)

\* the first index enumerate(generated_clips, 1) hands out
FirstIndex == 1

\* "for i, (start, end, _) in enumerate(generated_clips, 1)": the named clips
NamedClips(gen, base) ==
    [k \in 1..Len(gen) |-> <<gen[k][1], gen[k][2], ClipName(base, k + FirstIndex - 1)>>]

\* a variant without self.clips.clear()
Committed_Appends(old, named) == old \o named

\* self.clips.clear() followed by the appends of generate_clips
Committed(old, named) == named

(* ClipGenerator, as the set of lists a call can return when its draws are
   taken from draws *)

\* generate_overlapping_clips
OverlappingResults(draws, vd, n, d) ==
    IF Infeasible(MaxStart(vd, d)) THEN {<<>>}
    ELSE {Returned(seq) : seq \in [1..n -> {Window(start, d) : start \in draws}]}

\* generate_non_overlapping_clips: inloop is the set of values clips can have
\* after att attempts, finished the lists returned so far.  Once an iteration
\* maps inloop onto itself every later iteration does, and the lists in it
\* are returned when they are full or when the attempts run out.
RECURSIVE NonOverlapRuns(_, _, _, _, _, _, _)
NonOverlapRuns(inloop, att, finished, draws, vd, n, d) ==
    LET exits == {cs \in inloop : ~WhileCond(cs, n, att)}
        cont == inloop \ exits
        finished2 == finished \cup {Returned(cs) : cs \in exits}
    IN  IF cont = {} THEN finished2
        ELSE IF Infeasible(MaxStart(vd, d))
             THEN finished2 \cup {Returned(cs) : cs \in cont}
        ELSE LET next ==
                     {IF Overlaps(start, start + d, cs) THEN cs
                      ELSE Append(cs, Window(start, d)) :
                          cs \in cont, start \in draws}
             IN  IF next = inloop
                 THEN finished2 \cup {Returned(cs) : cs \in inloop}
                 ELSE NonOverlapRuns(next, att + 1, finished2, draws, vd, n, d)

NonOverlappingResults(draws, vd, n, d) == NonOverlapRuns({<<>>}, 0, {}, draws, vd, n, d)

\* a variant with the two branches exchanged
GeneratorResults_Swapped(ov, draws, vd, n, d) ==
    IF ov THEN NonOverlappingResults(draws, vd, n, d)
    ELSE OverlappingResults(draws, vd, n, d)

\* "if allow_overlap: ... else: ..." of generate_clips
GeneratorResults(ov, draws, vd, n, d) ==
    IF ov THEN OverlappingResults(draws, vd, n, d)
    ELSE NonOverlappingResults(draws, vd, n, d)

\* a sanity property of the step model: what a generator returns is one of
\* the lists of GeneratorResults
ReturnedIsAResult ==
    pc = "done" =>
        generated_clips \in GeneratorResults(allow_overlap,
                                             UniformDraws(MaxStart(video_duration, duration)),
                                             video_duration, num_clips, duration)

\* the draws of the application runs: both ends of the range and the
\* multiples of DrawStepApp between them
AppDraws(max_start) ==
    {start \in UniformDraws(max_start) : start % DrawStepApp = 0 \/ start = max_start}

\* the values of num_clips_spin and clip_duration_spin the application runs
\* take: the least and the largest count, the least length and the length
\* of the short video
AppNumClips == {NumClipsMin, MaxRequested}

AppClipDurations == {ClipDurationMin, ShortVideoDuration}

\* the durations a loaded video can have, and the calls generate_clips makes
VideoDurations == {VideoLength(f) : f \in {g \in Files : is_valid_video_file(g) /\ Readable(g)}}

GeneratorResultsOf ==
    [ov \in BOOLEAN, vd \in VideoDurations, n \in AppNumClips, d \in AppClipDurations |->
        GeneratorResults(ov, AppDraws(MaxStart(vd, d)), vd, n, d)]

(* VideoClipExtractor (main.py): the handlers *)

\* the last handler and the message it ended with
Outcome(handler, message) == <<handler, message>>

\* no ClipGenerator call was made by the handler
NoGeneratorCall ==
    /\ video_duration' = 0 /\ num_clips' = 0 /\ duration' = 0
    /\ allow_overlap' = FALSE /\ generated_clips' = <<>>
    /\ UNCHANGED <<clips, attempts, pc>>

\* the arguments of the ClipGenerator call of generate_clips and the list
\* it returned
GeneratorCall(vd, n, d, ov, gen) ==
    /\ video_duration' = vd /\ num_clips' = n /\ duration' = d
    /\ allow_overlap' = ov /\ generated_clips' = gen
    /\ UNCHANGED <<clips, attempts, pc>>

\* the content of a readable video of length len: a scene cut at every
\* multiple of CutStep and a pause one tick after each cut, as far as
\* MaxScenes and MaxSpeech allow
CutPoints(len) == {c \in 1..(len - 1) : c % CutStep = 0 /\ c \div CutStep < MaxScenes}

\* detect_scenes: (start, end) of each scene, contiguous from 0 to the end
RECURSIVE ScenesFrom(_, _)
ScenesFrom(from, len) ==
    LET later == {c \in CutPoints(len) : c > from}
    IN  IF later = {} THEN <<<<from, len>>>>
        ELSE LET cut == CHOOSE c \in later : \A e \in later : c <= e
             IN  <<<<from, cut>>>> \o ScenesFrom(cut, len)

DetectedScenes(len) == ScenesFrom(0, len)

SpeechPoints(len) ==
    {c \in CutStep..(len - 1) : c % CutStep = 1 /\ c \div CutStep <= MaxSpeech}

\* detect_speech_boundaries: the boundaries in increasing order
RECURSIVE SpeechFrom(_, _)
SpeechFrom(from, len) ==
    LET later == {c \in SpeechPoints(len) : c > from}
    IN  IF later = {} THEN <<>>
        ELSE LET b == CHOOSE c \in later : \A e \in later : c <= e
             IN  <<b>> \o SpeechFrom(b, len)

DetectedSpeech(len) == SpeechFrom(0, len)

\* load_video_file
LoadVideoFile(file_path) ==
    /\ IF ~is_valid_video_file(file_path)
       THEN /\ outcome' = Outcome("load_video_file", "Invalid File")
            /\ UNCHANGED <<self_video_path, self_video_duration, self_scenes,
                           self_speech_boundaries>>
       ELSE /\ self_video_path' = file_path
            /\ self_scenes' = <<>>
            /\ self_speech_boundaries' = <<>>
            /\ IF Readable(file_path)
               THEN /\ self_video_duration' = VideoLength(file_path)
                    /\ outcome' = Outcome("load_video_file", "Loaded")
               ELSE /\ UNCHANGED self_video_duration
                    /\ outcome' = Outcome("load_video_file", "Failed to load video")
    /\ ui' = UiUnread
    /\ NoGeneratorCall
    /\ UNCHANGED <<self_clips, resolverVars, workerVars>>

\* analyze_video, AnalysisThread.run and analysis_finished
AnalyzeVideo(analyze_scenes, analyze_audio, error, sc, sp) ==
    /\ IF self_video_path = NoVideo
       THEN /\ outcome' = Outcome("analyze_video", "No Video")
            /\ UNCHANGED <<self_scenes, self_speech_boundaries>>
       ELSE IF ~analyze_scenes /\ ~analyze_audio
       THEN /\ outcome' = Outcome("analyze_video", "No Analysis Selected")
            /\ UNCHANGED <<self_scenes, self_speech_boundaries>>
       ELSE IF error
       THEN /\ outcome' = Outcome("analysis_finished", "Analysis failed")
            /\ UNCHANGED <<self_scenes, self_speech_boundaries>>
       ELSE /\ self_scenes' = (IF analyze_scenes THEN sc ELSE <<>>)
            /\ self_speech_boundaries' = (IF analyze_audio THEN sp ELSE <<>>)
            /\ outcome' = Outcome("analysis_finished", "Analysis complete")
    /\ ui' = UiUnread
    /\ NoGeneratorCall
    /\ UNCHANGED <<self_video_path, self_video_duration, self_clips, resolverVars, workerVars>>

\* what the analysis of the loaded file can report: nothing for a file that
\* cannot be opened (detect_scenes and detect_speech_boundaries return [])
AnalysisOfLoaded ==
    \E analyze_scenes \in BOOLEAN, analyze_audio \in BOOLEAN, error \in BOOLEAN :
        IF self_video_path # NoVideo /\ Readable(self_video_path)
        THEN AnalyzeVideo(analyze_scenes, analyze_audio, error,
                          DetectedScenes(VideoLength(self_video_path)),
                          DetectedSpeech(VideoLength(self_video_path)))
        ELSE AnalyzeVideo(analyze_scenes, analyze_audio, error, <<>>, <<>>)

\* a variant that lets a clip as long as the video through
InvalidDuration_Strict(clip_duration, vd) == clip_duration > vd

\* "if clip_duration >= self.video_duration"
InvalidDuration(clip_duration, vd) == clip_duration >= vd

\* generate_clips
GenerateClips(n, d, ov, u) ==
    /\ IF self_video_path = NoVideo
       THEN /\ outcome' = Outcome("generate_clips", "No Video")
            /\ ui' = UiUnread
            /\ NoGeneratorCall
            /\ UNCHANGED self_clips
       ELSE IF InvalidDuration(d, self_video_duration)
       THEN /\ outcome' = Outcome("generate_clips", "Invalid Duration")
            /\ ui' = UiUnread
            /\ NoGeneratorCall
            /\ UNCHANGED self_clips
       ELSE IF u.mode = "Smart" /\ self_scenes = <<>> /\ self_speech_boundaries = <<>>
       THEN /\ outcome' = Outcome("generate_clips", "Analysis Required")
            /\ ui' = UiUnread
            /\ NoGeneratorCall
            /\ UNCHANGED self_clips
       ELSE \E gen \in GeneratorResultsOf[ov, self_video_duration, n, d] :
            LET smart == SmartApplies(u, self_scenes, self_speech_boundaries)
                final == IF smart
                         THEN AdjustedClips(gen, u, self_scenes, self_speech_boundaries)
                         ELSE gen
            IN  /\ self_clips' = Committed(self_clips, NamedClips(final, "short"))
                /\ ui' = UiRead(u, smart /\ gen # <<>>)
                /\ GeneratorCall(self_video_duration, n, d, ov, gen)
                /\ outcome' = Outcome("generate_clips",
                                      IF u.mode = "Smart"
                                      THEN "Generated using Smart mode"
                                      ELSE "Generated")
    /\ UNCHANGED <<self_video_path, self_video_duration, self_scenes,
                   self_speech_boundaries, resolverVars, workerVars>>

(* add_manual_clip: the typed text and float arithmetic *)

\* float("nan"): a value for which every comparison is false.  It is kept
\* apart from every time of the model.
NaN == -1000

IsNaN(x) == x = NaN

FloatAdd(a, b) == IF IsNaN(a) \/ IsNaN(b) THEN NaN ELSE a + b

FloatLt(a, b) == ~IsNaN(a) /\ ~IsNaN(b) /\ a < b

FloatGt(a, b) == FloatLt(b, a)

FloatGe(a, b) == ~IsNaN(a) /\ ~IsNaN(b) /\ a >= b

FloatLe(a, b) == FloatGe(b, a)

ManualSeconds == {k * ManualStep : k \in 0..3}

ManualTexts ==
    {Text("empty", 0, 0), Text("word", 0, 0), Text("three parts", 0, 0),
     Text("nan", 0, 0), Text("seconds", -1, 0)}
    \cup {Text("MM:SS", 0, sec) : sec \in ManualSeconds}

\* the try block: [raised |-> TRUE] on ValueError, else the start time
ParseStart(time_text) ==
    CASE time_text.kind = "MM:SS" ->
             [raised |-> FALSE, start_time |-> time_text.a * 60 + time_text.b]
      [] time_text.kind = "seconds" -> [raised |-> FALSE, start_time |-> time_text.a]
      [] time_text.kind = "nan" -> [raised |-> FALSE, start_time |-> NaN]
      [] OTHER -> [raised |-> TRUE, start_time |-> 0]

\* a variant that leaves the end where it is
ClampEnd_Never(end_time, vd) == end_time

\* "if end_time > self.video_duration: end_time = self.video_duration"
ClampEnd(end_time, vd) == IF FloatGt(end_time, vd) THEN vd ELSE end_time

\* "if smart_end > smart_start and smart_end <= self.video_duration"
AcceptAdjusted(smart_start, smart_end, vd) ==
    FloatGt(smart_end, smart_start) /\ FloatLe(smart_end, vd)

\* the pair add_manual_clip stores for a start that passed the bounds tests
ManualPair(start_time, clip_duration, vd, u, sc, sp) ==
    LET end_time == ClampEnd(FloatAdd(start_time, clip_duration), vd)
        smart_start == self_find_smart_boundary(start_time, "start", u, sc, sp)
        smart_end == self_find_smart_boundary(end_time, "end", u, sc, sp)
    IN  IF SmartApplies(u, sc, sp) /\ AcceptAdjusted(smart_start, smart_end, vd)
        THEN <<smart_start, smart_end>>
        ELSE <<start_time, end_time>>

\* a variant that counts from the size before the append
ManualIndex_Size(cs) == Len(cs)

\* clip_count = len(self.clips) + 1
ManualIndex(cs) == Len(cs) + 1

\* add_manual_clip
AddManualClip(time_text, clip_duration, u) ==
    /\ IF self_video_path = NoVideo
       THEN /\ outcome' = Outcome("add_manual_clip", "No Video")
            /\ ui' = UiUnread
            /\ UNCHANGED self_clips
       ELSE IF time_text.kind = "empty" \/ ParseStart(time_text).raised
       THEN /\ outcome' = Outcome("add_manual_clip", "Invalid Input")
            /\ ui' = UiUnread
            /\ UNCHANGED self_clips
       ELSE LET start_time == ParseStart(time_text).start_time
            IN  IF FloatLt(start_time, 0) \/ FloatGe(start_time, self_video_duration)
                THEN /\ outcome' = Outcome("add_manual_clip", "Invalid Time")
                     /\ ui' = UiUnread
                     /\ UNCHANGED self_clips
                ELSE LET smart == SmartApplies(u, self_scenes, self_speech_boundaries)
                         pair == ManualPair(start_time, clip_duration, self_video_duration,
                                            u, self_scenes, self_speech_boundaries)
                         clip_name == ClipName("manual", ManualIndex(self_clips))
                     IN  /\ Len(self_clips) < MaxClips
                         /\ self_clips' = Append(self_clips, <<pair[1], pair[2], clip_name>>)
                         /\ ui' = ManualRead(UiRead(u, smart), time_text, clip_duration)
                         \* format_time raises on a NaN, after the append
                         /\ outcome' = Outcome("add_manual_clip",
                                               IF IsNaN(pair[1]) \/ IsNaN(pair[2])
                                               THEN "ValueError"
                                               ELSE "Added manual clip")
    /\ NoGeneratorCall
    /\ UNCHANGED <<self_video_path, self_video_duration, self_scenes,
                   self_speech_boundaries, resolverVars, workerVars>>

\* del self.clips[current_row]
DeleteRow(cs, current_row) ==
    [k \in 1..(Len(cs) - 1) |-> IF k < current_row + 1 THEN cs[k] ELSE cs[k + 1]]

\* remove_clip (shorts_maker.py; the Remove Selected button of ui.py);
\* currentRow() is -1 when no row is selected
RemoveClip(current_row) ==
    /\ IF current_row >= 0
       THEN /\ self_clips' = DeleteRow(self_clips, current_row)
            /\ outcome' = Outcome("remove_clip", "Removed")
       ELSE /\ UNCHANGED self_clips
            /\ outcome' = Outcome("remove_clip", "No Selection")
    /\ ui' = UiUnread
    /\ NoGeneratorCall
    /\ UNCHANGED <<self_video_path, self_video_duration, self_scenes,
                   self_speech_boundaries, resolverVars, workerVars>>

\* clear_all_clips
ClearAllClips ==
    /\ self_clips' = <<>>
    /\ outcome' = Outcome("clear_all_clips", "Cleared")
    /\ ui' = UiUnread
    /\ NoGeneratorCall
    /\ UNCHANGED <<self_video_path, self_video_duration, self_scenes,
                   self_speech_boundaries, resolverVars, workerVars>>

\* the application after construction
InitApp == SamplerIdle /\ ResolverIdle /\ AppIdle /\ WorkerIdle

LoadAnyFile == \E file_path \in Files : LoadVideoFile(file_path)

\* the widget values a handler can tell apart: without analysis data the
\* checkboxes and the tolerance are not read
ReadableUi ==
    {UiRead(u, SmartApplies(u, self_scenes, self_speech_boundaries)) : u \in UiChoices}

GenerateAny ==
    \E n \in AppNumClips, d \in AppClipDurations, ov \in BOOLEAN, u \in ReadableUi :
        GenerateClips(n, d, ov, u)

\* the spin box and the mode are read only after the text was parsed
AddManualAny ==
    \E time_text \in ManualTexts :
        IF time_text.kind = "empty" \/ ParseStart(time_text).raised
        THEN AddManualClip(time_text, ClipDurationMin, UiUnread)
        ELSE \E clip_duration \in AppClipDurations, u \in ReadableUi :
                 AddManualClip(time_text, clip_duration, u)

RemoveAny == \E current_row \in -1..(Len(self_clips) - 1) : RemoveClip(current_row)

NextApp ==
    \/ LoadAnyFile
    \/ AnalysisOfLoaded
    \/ GenerateAny
    \/ AddManualAny
    \/ RemoveAny
    \/ ClearAllClips

SpecApp == InitApp /\ [][NextApp]_vars

\* the runs that lead to a generation: load, analyse, generate, and a manual
\* clip added to the empty ClipSet
AddFirstManual == self_clips = <<>> /\ AddManualAny

NextGenerate ==
    \/ LoadAnyFile
    \/ AnalysisOfLoaded
    \/ GenerateAny
    \/ AddFirstManual

SpecGenerate == InitApp /\ [][NextGenerate]_vars

\* the example of the manual clip that overruns: a video of 100 s is loaded,
\* the texts are 00:50, 50, 00:00, 01:39 and 01:40, the clip length 5 or 150
InitManual ==
    /\ SamplerIdle /\ ResolverIdle /\ WorkerIdle
    /\ self_video_path = <<"talk", ".mp4">> /\ self_video_duration = 100
    /\ self_clips = <<>>
    /\ self_scenes = <<>> /\ self_speech_boundaries = <<>>
    /\ ui = UiUnread /\ outcome = Outcome("load_video_file", "Loaded")

AddManualTyped ==
    \E time_text \in {Text("MM:SS", 0, 50), Text("seconds", 50, 0), Text("MM:SS", 0, 0),
                      Text("MM:SS", 1, 39), Text("MM:SS", 1, 40)},
       clip_duration \in {ClipDurationMin, 150}, u \in UiChoices :
        AddManualClip(time_text, clip_duration, u)

NextManual == AddManualTyped \/ ClearAllClips

SpecManual == InitManual /\ [][NextManual]_vars

-----------------------------------------------------------------------------
(* Properties of the application *)

\* generate_clips passed its tests and committed
GeneratedNow ==
    /\ outcome[1] = "generate_clips"
    /\ outcome[2] \in {"Generated", "Generated using Smart mode"}

\* ... in Smart mode with analysis data: the adjustment loop ran
AdjustedNow ==
    /\ GeneratedNow /\ ui.mode = "Smart"
    /\ (self_scenes # <<>> \/ self_speech_boundaries # <<>>)

\* ... over at least one window, with an analysis type selected
PolicyNow ==
    /\ AdjustedNow /\ generated_clips # <<>>
    /\ (ui.scene_detection \/ ui.audio_detection)

\* the policy the selected analysis types stand for: scenes first when scene
\* detection is selected, speech first when only audio detection is
PolicySelected(u) == IF u.scene_detection THEN ScenePriority ELSE SpeechPriority

\* resolve(t, kind) under that policy, on the analysis data of the application
resolve(t, kind, u) ==
    find_smart_boundary(t, self_scenes, self_speech_boundaries, TRUE,
                        PolicySelected(u), u.max_adjustment, kind)

\* the sampled windows whose resolved edges collapse or invert
Inverted ==
    {k \in 1..Len(generated_clips) :
        resolve(generated_clips[k][2], "end", ui)
            <= resolve(generated_clips[k][1], "start", ui)}

\* C11: the smart adjustment of a generation run resolves both edges of each
\* sampled window and keeps the window iff end' > start'; every window whose
\* resolved edges collapse or invert is dropped, so the committed list is
\* shorter than the sampled one whenever such a window exists.
C11_InvertedWindowsDropped ==
    PolicyNow =>
        /\ Len(self_clips) = Len(generated_clips) - Cardinality(Inverted)
        /\ Inverted # {} => Len(self_clips) < Len(generated_clips)

\* C12: in Smart mode with analysis data, each edge of a committed clip is
\* resolve(t, kind) of the sampled edge, under ScenePriority when scene
\* detection is selected and under SpeechPriority when only audio detection
\* is (stated for the runs in which no window was dropped).
C12_AppResolvesUnderPolicy ==
    (PolicyNow /\ Len(self_clips) = Len(generated_clips)) =>
        \A k \in 1..Len(self_clips) :
            /\ self_clips[k][1] = resolve(generated_clips[k][1], "start", ui)
            /\ self_clips[k][2] = resolve(generated_clips[k][2], "end", ui)

C14_ClipsWithinVideo ==
    \A k \in 1..Len(self_clips) :
        /\ 0 <= self_clips[k][1]
        /\ self_clips[k][1] < self_clips[k][2]
        /\ self_clips[k][2] <= self_video_duration

\* ds is the four-digit decimal numeral of i
FourDigits(ds, i) ==
    /\ Len(ds) = 4
    /\ \A j \in 1..4 : ds[j] \in 0..9
    /\ ds[1] * 1000 + ds[2] * 100 + ds[3] * 10 + ds[4] = i

\* C15: after a generation run that passed its tests the ClipSet is exactly
\* the generated (in Smart mode adjusted and filtered) windows in output
\* order, the i-th named short_{i:04d} from 1 without gaps, and nothing else;
\* also when fewer windows than requested were produced.
C15_CommitReplaces ==
    GeneratedNow =>
        LET windows == IF AdjustedNow
                       THEN AdjustedClips(generated_clips, ui, self_scenes,
                                          self_speech_boundaries)
                       ELSE generated_clips
        IN  /\ Len(self_clips) = Len(windows)
            /\ \A i \in 1..Len(windows) :
                   /\ self_clips[i][1] = windows[i][1]
                   /\ self_clips[i][2] = windows[i][2]
                   /\ self_clips[i][3][1] = "short"
                   /\ FourDigits(self_clips[i][3][2], i)

\* a partial generation: fewer windows than requested, committed
C15_Witness ==
    /\ GeneratedNow /\ ~allow_overlap
    /\ Len(generated_clips) < num_clips
    /\ Len(self_clips) = Len(generated_clips)
    /\ self_clips # <<>>

\* C16: a generation request with no video loaded, with a clip duration >=
\* the video duration, or in Smart mode with neither scenes nor speech
\* boundaries is rejected: no window is sampled and the ClipSet stays as it
\* was.  (A request ends in one of the three warnings or gets through; the
\* ones that get through are none of the three kinds.)
C16_RejectedBeforeSampling ==
    [][outcome'[1] = "generate_clips" =>
          IF outcome'[2] \in {"No Video", "Invalid Duration", "Analysis Required"}
          THEN /\ generated_clips' = <<>>
               /\ self_clips' = self_clips
          ELSE /\ self_video_path # NoVideo
               /\ duration' < self_video_duration
               /\ ~(/\ ui'.mode = "Smart"
                    /\ self_scenes = <<>> /\ self_speech_boundaries = <<>>)]_vars

\* a request rejected for its clip duration while the ClipSet holds clips
C16_Witness ==
    /\ outcome = Outcome("generate_clips", "Invalid Duration")
    /\ self_video_duration > 0
    /\ self_clips # <<>>

\* add_manual_clip stored a clip and reported it
AddedNow == outcome = Outcome("add_manual_clip", "Added manual clip")

\* the seconds a typed MM:SS or number of seconds stands for
TypedSeconds(time_text) ==
    IF time_text.kind = "MM:SS" THEN time_text.a * 60 + time_text.b ELSE time_text.a

\* the start and the end the user asked for: end = start + clip length
TypedStart == TypedSeconds(ui.time_text)

TypedEnd == TypedStart + ui.clip_duration

\* the clip at the end of the ClipSet
LastClip == self_clips[Len(self_clips)]

\* C17: a manual clip with 0 <= start < duration whose end overruns the video
\* is accepted with its end clamped to the duration; start 50, end 200 on a
\* video of 100 is stored as (50, 100).
C17_EndClamped ==
    AddedNow =>
        /\ TypedEnd > self_video_duration =>
               /\ LastClip[1] = TypedStart
               /\ LastClip[2] = self_video_duration
        /\ (TypedStart = 50 /\ TypedEnd = 200 /\ self_video_duration = 100) =>
               <<LastClip[1], LastClip[2]>> = <<50, 100>>

\* 00:50 with a clip length of 150 on the video of 100 s, stored as (50, 100)
C17_Witness ==
    /\ AddedNow
    /\ ui.time_text = Text("MM:SS", 0, 50) /\ ui.clip_duration = 150
    /\ self_video_duration = 100
    /\ <<LastClip[1], LastClip[2]>> = <<50, 100>>

\* C18: with a policy active a manual clip is stored as the independently
\* resolved pair (start', end') iff end' > start' and end' <= duration, and as
\* the clamped, unadjusted pair otherwise.
C18_ManualResolvedOrOriginal ==
    (/\ AddedNow /\ ui.mode = "Smart"
     /\ (self_scenes # <<>> \/ self_speech_boundaries # <<>>)
     /\ (ui.scene_detection \/ ui.audio_detection)) =>
        LET end_time == IF TypedEnd > self_video_duration
                        THEN self_video_duration ELSE TypedEnd
            start2 == resolve(TypedStart, "start", ui)
            end2 == resolve(end_time, "end", ui)
        IN  <<LastClip[1], LastClip[2]>> =
                IF end2 > start2 /\ end2 <= self_video_duration
                THEN <<start2, end2>>
                ELSE <<TypedStart, end_time>>

C20_InvalidManualRejected ==
    [][(outcome'[1] = "add_manual_clip" /\ self_clips' # self_clips) =>
          /\ self_video_path # NoVideo
          /\ ui'.time_text.kind \in {"MM:SS", "seconds"}
          /\ 0 <= TypedSeconds(ui'.time_text)
          /\ TypedSeconds(ui'.time_text) < self_video_duration]_vars

-----------------------------------------------------------------------------
(* AnalysisThread.detect_speech_boundaries: the frame loop and the filter.  *)
(* Frames are numbered from 0 as enumerate does; is_speech[i + 1] is the    *)
(* entry of frame i.  A time is kept exactly, as a number of audio samples: *)
(* frames_to_time(i) = i * hop_length / sr seconds is TimeOf(i) samples and *)
(* one second is sr samples.                                                *)

MaxRuns == 6

\* librosa.load(temp_audio, sr=22050, mono=True)
sr == 22050

\* hop_length = int(0.010 * sr)
hop_length == sr \div 100

\* min_silence_frames = int(0.3 * sr / hop_length)
min_silence_frames == (3 * sr) \div (10 * hop_length)

\* min_speech_frames = int(0.25 * sr / hop_length)
min_speech_frames == (25 * sr) \div (100 * hop_length)

\* librosa.frames_to_time(frame, sr=sr, hop_length=hop_length), in samples
TimeOf(frame) == frame * hop_length

\* last_boundary = -999, in samples
LastBoundaryStart == (0 - 999) * sr

\* a variant that keeps every boundary later than the last one
FarEnough_AnyGap(boundary, last_boundary) == boundary - last_boundary > 0

\* "if boundary - last_boundary > 1.0"
FarEnough(boundary, last_boundary) == boundary - last_boundary > 1 * sr

\* the loop "for boundary in speech_boundaries" that builds filtered_boundaries
RECURSIVE FilterBoundaries(_, _)
FilterBoundaries(bs, last_boundary) ==
    IF bs = <<>> THEN <<>>
    ELSE IF FarEnough(Head(bs), last_boundary)
         THEN <<Head(bs)>> \o FilterBoundaries(Tail(bs), Head(bs))
         ELSE FilterBoundaries(Tail(bs), last_boundary)

\* the locals of the frame loop before frame 0
LoopStart ==
    [in_speech |-> FALSE, silence_frames |-> 0, speech_start_frame |-> 0,
     speech_boundaries |-> <<>>]

\* speech_duration = i - speech_start_frame, with i the frame of the silence
\* that completed min_silence_frames
SpeechDuration(i, silence_frames, speech_start_frame) == i - speech_start_frame

\* the body of "for i, speech_frame in enumerate(is_speech)" for frame i
FrameStep(l, i, speech_frame) ==
    IF speech_frame
    THEN [l EXCEPT !.speech_start_frame = IF l.in_speech THEN @ ELSE i,
                   !.in_speech = TRUE,
                   !.silence_frames = 0]
    ELSE IF ~l.in_speech THEN l
    ELSE IF l.silence_frames + 1 < min_silence_frames
    THEN [l EXCEPT !.silence_frames = @ + 1]
    ELSE LET silence_frames == l.silence_frames + 1
             speech_duration == SpeechDuration(i, silence_frames, l.speech_start_frame)
             boundary_time == TimeOf(i - (silence_frames \div 2))
         IN  [l EXCEPT !.speech_boundaries =
                           IF speech_duration >= min_speech_frames
                           THEN Append(@, boundary_time) ELSE @,
                       !.in_speech = FALSE,
                       !.silence_frames = 0]

\* the frames lo..hi of the loop, in order, starting with the locals l: the
\* frames up to the middle one first, then the rest (between two frames
\* silence_frames is below min_silence_frames)
RECURSIVE FrameLoop(_, _, _, _)
FrameLoop(frames, l, lo, hi) ==
    IF lo > hi THEN l
    ELSE IF lo = hi THEN FrameStep(l, lo, frames[lo + 1])
    ELSE LET mid == (lo + hi) \div 2
             first_half == FrameLoop(frames, l, lo, mid)
         IN  IF first_half.silence_frames < min_silence_frames
             THEN FrameLoop(frames, first_half, mid + 1, hi)
             ELSE first_half

\* the audio tracks of the model: runs of speech frames and of silent frames
\* in turn, the first a run of speech; a run is one frame, min_speech_frames,
\* min_silence_frames or one second long
RunLengths == {1, min_speech_frames, min_silence_frames, sr \div hop_length}

RunLists == UNION {[1..n -> RunLengths] : n \in 1..MaxRuns}

RECURSIVE FramesOf(_, _)
FramesOf(runs, speech) ==
    IF runs = <<>> THEN <<>>
    ELSE [k \in 1..Head(runs) |-> speech] \o FramesOf(Tail(runs), ~speech)

SilentFrames(frames) == {k \in 1..Len(frames) : ~frames[k]}

\* is_speech = combined_energy > np.percentile(combined_energy, 40): at least
\* four frames in ten are not above the threshold
AudioTracks ==
    {frames \in {FramesOf(runs, TRUE) : runs \in RunLists} :
        10 * Cardinality(SilentFrames(frames)) >= 4 * Len(frames)}

InitSpeech ==
    /\ SamplerIdle /\ ResolverIdle /\ AppIdle /\ AdjustIdle /\ ThreadsIdle
    /\ is_speech \in AudioTracks
    /\ raw_speech_boundaries = <<>> /\ filtered_boundaries = <<>>
    /\ dpc = "call"

\* detect_speech_boundaries from the frame loop to the return
DetectSpeechBoundaries ==
    /\ dpc = "call"
    /\ LET found == FrameLoop(is_speech, LoopStart, 0, Len(is_speech) - 1).speech_boundaries
       IN  /\ raw_speech_boundaries' = found
           /\ filtered_boundaries' = FilterBoundaries(found, LastBoundaryStart)
    /\ dpc' = "returned"
    /\ UNCHANGED is_speech
    /\ UNCHANGED <<samplerVars, resolverVars, appVars, adjustVars, threadVars>>

NextSpeech == DetectSpeechBoundaries

SpecSpeech == InitSpeech /\ [][NextSpeech]_vars

-----------------------------------------------------------------------------
(* Properties of the speech detector *)

\* two times are closer than one second
CloserThanSecond(a, b) == Abs(a - b) < 1 * sr

\* the k-th element of a set of indices, counted from 1
KthOf(K, n) == CHOOSE k \in K : Cardinality({j \in K : j < k}) = n - 1

\* K is the set of positions of bs that a scan in order keeps when it drops
\* a boundary exactly when it is closer than one second to the boundary kept
\* last
KeptByScan(bs, K) ==
    \A k \in 1..Len(bs) :
        k \in K <=>
            LET before == {j \in K : j < k}
            IN  \/ before = {}
                \/ ~CloserThanSecond(bs[k], bs[KthOf(before, Cardinality(before))])

\* C21: the returned speech boundaries are the detected ones deduplicated by
\* minimum spacing: scanning in order, a boundary is dropped exactly when it
\* is closer than 1 second to the most recently kept one; the first is always
\* kept and the result is a subsequence in the same order.
C21_MinSpacingDedup ==
    dpc = "returned" =>
        \E K \in SUBSET (1..Len(raw_speech_boundaries)) :
            /\ KeptByScan(raw_speech_boundaries, K)
            /\ Len(filtered_boundaries) = Cardinality(K)
            /\ \A n \in 1..Cardinality(K) :
                   filtered_boundaries[n] = raw_speech_boundaries[KthOf(K, n)]
            /\ raw_speech_boundaries # <<>> => 1 \in K

\* three boundaries, the second dropped, the third kept although it is closer
\* than a second to the dropped one
C21_Witness ==
    /\ dpc = "returned"
    /\ Len(raw_speech_boundaries) = 3
    /\ filtered_boundaries = <<raw_speech_boundaries[1], raw_speech_boundaries[3]>>
    /\ CloserThanSecond(raw_speech_boundaries[3], raw_speech_boundaries[2])

\* the frame at which the loop recorded the boundary at time b: the boundary
\* is placed half of the silence before it
RecordedAt(b) == (b \div hop_length) + (min_silence_frames \div 2)

\* no min_silence_frames consecutive silent frames among the frames s..e
NoLongSilence(s, e) ==
    \A j \in s..(e - min_silence_frames + 1) :
        \E k \in j..(j + min_silence_frames - 1) : is_speech[k + 1]

\* the speech frames of the speech that ends at frame e: from the frame it
\* began at, pauses shorter than min_silence_frames included
SpeechFramesBefore(e) ==
    LET starts == {s \in 0..e : is_speech[s + 1] /\ NoLongSilence(s, e)}
        began == CHOOSE s \in starts : \A t \in starts : s <= t
    IN  IF starts = {} THEN {}
        ELSE {j \in began..e : is_speech[j + 1]}

\* C23: a speech boundary is recorded only after at least min_silence_frames
\* consecutive silent frames that follow a speech of at least
\* min_speech_frames speech frames; a shorter burst of speech followed by
\* silence gives no boundary.
C23_LongSpeechThenSilence ==
    dpc = "returned" =>
        \A n \in 1..Len(raw_speech_boundaries) :
            LET i == RecordedAt(raw_speech_boundaries[n])
                last_speech == i - min_silence_frames
            IN  /\ \A j \in (last_speech + 1)..i : ~is_speech[j + 1]
                /\ Cardinality(SpeechFramesBefore(last_speech)) >= min_speech_frames

-----------------------------------------------------------------------------
(* Further properties of the resolver *)

\* C25: for every input the value find_smart_boundary returns is t itself or
\* one of the supplied boundaries (a scene edge of the requested kind or a
\* speech boundary), and it differs from t by at most maxAdjustment.
C25_ResultIsNearbyCandidate ==
    rpc = "returned" =>
        /\ resolved \in ({time_point} \cup SceneCandidates \cup SpeechCandidates)
        /\ Distance(resolved) <= max_adjustment

\* the result is a boundary at exactly maxAdjustment from t while another
\* boundary lies one tick beyond the tolerance
C25_Witness ==
    /\ rpc = "returned" /\ enable_smart_cuts
    /\ resolved # time_point
    /\ Distance(resolved) = max_adjustment
    /\ \E c \in SceneCandidates \cup SpeechCandidates :
           Distance(c) = max_adjustment + 1

-----------------------------------------------------------------------------
(* The smart adjustment loop of generate_clips with the resolver under any  *)
(* priority string: the four policies of SmartBoundaryFinder and the two    *)
(* strings main.py passes.                                                  *)

MaxWindowStart == 2

\* the timeline of the adjustment runs: long enough for a window of the
\* least clip length at every start
AdjustTimeline == MaxWindowStart + ClipDurationMin

\* a variant that puts an adjusted window in front of the ones kept before
Collected_Front(kept, later) == later \o kept

\* adjusted_clips.append((smart_start, smart_end, "")), in loop order
Collected(kept, later) == kept \o later

\* the loop "for start, end, _ in generated_clips" with the priority prio and
\* the tolerance m
RECURSIVE AdjustedUnder(_, _, _, _, _)
AdjustedUnder(gen, sc, sp, prio, m) ==
    IF gen = <<>> THEN <<>>
    ELSE LET smart_start == find_smart_boundary(Head(gen)[1], sc, sp, TRUE, prio, m, "start")
             smart_end == find_smart_boundary(Head(gen)[2], sc, sp, TRUE, prio, m, "end")
             later == AdjustedUnder(Tail(gen), sc, sp, prio, m)
         IN  IF KeepAdjusted(smart_start, smart_end)
             THEN Collected(<<<<smart_start, smart_end, "">>>>, later)
             ELSE later

\* what a generator returns: up to MaxRequested windows of the least clip
\* length, sorted by start
SortedWindowLists ==
    UNION {{[k \in 1..n |-> Window(starts[k], ClipDurationMin)] :
               starts \in {st \in [1..n -> 0..MaxWindowStart] :
                              \A k \in 1..(n - 1) : st[k] <= st[k + 1]}} :
           n \in 0..MaxRequested}

\* what detect_scenes reports: nothing, or up to MaxScenes scenes that follow
\* each other from 0 to the end of the timeline
RECURSIVE ScenesAlong(_, _)
ScenesAlong(from, cuts) ==
    IF cuts = {} THEN <<<<from, AdjustTimeline>>>>
    ELSE LET cut == CHOOSE c \in cuts : \A e \in cuts : c <= e
         IN  <<<<from, cut>>>> \o ScenesAlong(cut, cuts \ {cut})

ContiguousSceneLists ==
    {<<>>} \cup {ScenesAlong(0, cuts) :
                    cuts \in {cs \in SUBSET (1..(AdjustTimeline - 1)) :
                                 Cardinality(cs) < MaxScenes}}

\* what detect_speech_boundaries reports: up to MaxSpeech increasing times
OrderedSpeechLists ==
    UNION {{sq \in [1..n -> 1..(AdjustTimeline - 1)] :
               \A k \in 1..(n - 1) : sq[k] < sq[k + 1]} : n \in 0..MaxSpeech}

InitAdjust ==
    /\ SamplerIdle /\ AppIdle /\ DetectorIdle /\ ThreadsIdle
    /\ time_point = 0 /\ boundary_type = "start" /\ rpc = "idle" /\ resolved = 0
    /\ enable_smart_cuts = TRUE
    /\ scenes \in ContiguousSceneLists
    /\ speech_boundaries \in OrderedSpeechLists
    /\ priority \in Priorities
    /\ max_adjustment \in {MaxAdjustmentMin, MaxAdjustmentSpin}
    /\ (scenes # <<>> \/ speech_boundaries # <<>>)
    /\ adjusted_clips = <<>> /\ apc = "call"

\* generate_clips from the adjustment loop to the commit, for a list the
\* generator returned
AdjustAndCommit ==
    /\ apc = "call"
    /\ \E gen \in SortedWindowLists :
          LET adjusted == AdjustedUnder(gen, scenes, speech_boundaries, priority,
                                        max_adjustment)
          IN  /\ generated_clips' = gen
              /\ adjusted_clips' = adjusted
              /\ self_clips' = Committed(self_clips, NamedClips(adjusted, "short"))
    /\ apc' = "done"
    /\ outcome' = Outcome("generate_clips", "Generated using Smart mode")
    /\ UNCHANGED <<video_duration, num_clips, duration, allow_overlap, clips,
                   attempts, pc>>
    /\ UNCHANGED <<self_video_path, self_video_duration, self_scenes,
                   self_speech_boundaries, ui>>
    /\ UNCHANGED <<resolverVars, detectorVars, threadVars>>

NextAdjust == AdjustAndCommit

SpecAdjust == InitAdjust /\ [][NextAdjust]_vars

(* Properties of the adjustment loop *)

\* C26: smart adjustment keeps the generation order: when the sampled windows
\* are sorted by start and scenes and speech boundaries are ordered, the
\* windows that survive the adjustment, under each of the four policies (and
\* under the strings the application passes), are sorted non-decreasingly by
\* start, so the numbers in the committed names follow the timeline.
C26_AdjustmentKeepsOrder ==
    apc = "done" =>
        /\ SortedByStart(adjusted_clips)
        /\ SortedByStart(self_clips)
        /\ \A i \in 1..Len(self_clips) : FourDigits(self_clips[i][3][2], i)

\* under a policy of the resolver two windows were kept whose starts moved
\* towards each other
C26_Witness ==
    /\ apc = "done"
    /\ priority \in {ScenePriority, SpeechPriority, NearestEither, SceneStartSpeechEnd}
    /\ Len(generated_clips) = 2 /\ Len(self_clips) = 2
    /\ self_clips[1][1] > generated_clips[1][1]
    /\ self_clips[2][1] < generated_clips[2][1]

-----------------------------------------------------------------------------
(* Further properties of the application *)

\* C27: after any sequence of generate, manual add with the default name,
\* remove selected and clear, no two clips of the ClipSet have the same name
\* (so that no two clips are exported to the same file).
C27_NamesUnique ==
    \A j, k \in 1..Len(self_clips) : j # k => self_clips[j][3] # self_clips[k][3]

\* load_video_file ended without loading: the extension was refused or the
\* duration probe raised
LoadFailed(o) ==
    /\ o[1] = "load_video_file"
    /\ o[2] \in {"Invalid File", "Failed to load video"}

\* C30: a load_video_file that fails (invalid extension, or the duration
\* probe raising) leaves video path, video duration, scenes and speech
\* boundaries as they were, so the stored duration always is the duration of
\* the file at the stored path.
C30_FailedLoadChangesNothing ==
    /\ [][LoadFailed(outcome') =>
             /\ self_video_path' = self_video_path
             /\ self_video_duration' = self_video_duration
             /\ self_scenes' = self_scenes
             /\ self_speech_boundaries' = self_speech_boundaries]_vars
    /\ [](self_video_path # NoVideo =>
             /\ Readable(self_video_path)
             /\ self_video_duration = VideoLength(self_video_path))

-----------------------------------------------------------------------------
(* The analysis thread.  analyze_video creates an AnalysisThread and starts *)
(* it; the thread emits finished(result) when run is over, and the signal   *)
(* is delivered to analysis_finished on the UI thread, between two other    *)
(* handlers.  What the thread detects depends on the file it was given      *)
(* only, so run and the delivery of its signal are one step.                *)

MaxAnalysisThreads == 2

\* AnalysisThread.__init__; referenced: self.analysis_thread names this object
AnalysisThread(video_path, analyze_scenes, analyze_audio) ==
    [video_path |-> video_path, analyze_scenes |-> analyze_scenes,
     analyze_audio |-> analyze_audio, referenced |-> TRUE]

\* "self.analysis_thread = AnalysisThread(...)" takes the name from the
\* thread it named before
Unreferenced(threads) ==
    [k \in 1..Len(threads) |-> [threads[k] EXCEPT !.referenced = FALSE]]

RemoveAt(threads, k) ==
    [j \in 1..(Len(threads) - 1) |-> IF j < k THEN threads[j] ELSE threads[j + 1]]

\* detect_scenes and detect_speech_boundaries on a file: [] for a file that
\* cannot be opened
ScenesOfFile(file_path) ==
    IF Readable(file_path) THEN DetectedScenes(VideoLength(file_path)) ELSE <<>>

SpeechOfFile(file_path) ==
    IF Readable(file_path) THEN DetectedSpeech(VideoLength(file_path)) ELSE <<>>

\* AnalysisThread.run: the dict it emits; error stands for result['error']
\* being a message (the except branch)
RunResult(thread, error) ==
    IF error THEN [scenes |-> <<>>, speech_boundaries |-> <<>>, error |-> TRUE]
    ELSE [scenes |-> IF thread.analyze_scenes
                     THEN ScenesOfFile(thread.video_path) ELSE <<>>,
          speech_boundaries |-> IF thread.analyze_audio
                                THEN SpeechOfFile(thread.video_path) ELSE <<>>,
          error |-> FALSE]

\* a variant that keeps the stored list when the result has none
StoredAfter_Merged(stored, reported) == IF reported = <<>> THEN stored ELSE reported

\* "self.scenes = result['scenes']", "self.speech_boundaries = ..."
StoredAfter(stored, reported) == reported

\* analyze_video up to self.analysis_thread.start()
StartAnalysis(analyze_scenes, analyze_audio) ==
    /\ ~crashed
    /\ IF self_video_path = NoVideo
       THEN /\ outcome' = Outcome("analyze_video", "No Video")
            /\ UNCHANGED analysis_threads
       ELSE IF ~analyze_scenes /\ ~analyze_audio
       THEN /\ outcome' = Outcome("analyze_video", "No Analysis Selected")
            /\ UNCHANGED analysis_threads
       ELSE /\ Len(analysis_threads) < MaxAnalysisThreads
            /\ analysis_threads' =
                   Append(Unreferenced(analysis_threads),
                          AnalysisThread(self_video_path, analyze_scenes, analyze_audio))
            /\ outcome' = Outcome("analyze_video", "Analyzing video")
    /\ ui' = UiUnread
    /\ NoGeneratorCall
    /\ UNCHANGED <<self_video_path, self_video_duration, self_clips, self_scenes,
                   self_speech_boundaries>>
    /\ UNCHANGED <<analysis_result, export_threads, crashed>>
    /\ UNCHANGED <<resolverVars, detectorVars, adjustVars>>

StartAnyAnalysis ==
    \E analyze_scenes \in BOOLEAN, analyze_audio \in BOOLEAN :
        StartAnalysis(analyze_scenes, analyze_audio)

\* the k-th running thread ends: AnalysisThread.run and analysis_finished
AnalysisFinished(k, error) ==
    /\ ~crashed
    /\ k \in 1..Len(analysis_threads)
    /\ LET result == RunResult(analysis_threads[k], error)
       IN  /\ analysis_result' = result
           /\ IF result.error
              THEN /\ outcome' = Outcome("analysis_finished", "Analysis failed")
                   /\ UNCHANGED <<self_scenes, self_speech_boundaries>>
              ELSE /\ self_scenes' = StoredAfter(self_scenes, result.scenes)
                   /\ self_speech_boundaries' =
                          StoredAfter(self_speech_boundaries, result.speech_boundaries)
                   /\ outcome' = Outcome("analysis_finished", "Analysis complete")
    /\ analysis_threads' = RemoveAt(analysis_threads, k)
    /\ ui' = UiUnread
    /\ NoGeneratorCall
    /\ UNCHANGED <<self_video_path, self_video_duration, self_clips>>
    /\ UNCHANGED <<export_threads, crashed>>
    /\ UNCHANGED <<resolverVars, detectorVars, adjustVars>>

AnyAnalysisFinished ==
    \E k \in 1..Len(analysis_threads), error \in BOOLEAN : AnalysisFinished(k, error)

\* a running QThread that nothing names any more is destroyed when Python
\* frees it: Qt aborts the process ("QThread: Destroyed while thread is
\* still running"), or the thread is over before that and nothing happens
DestroyedWhileRunning ==
    /\ ~crashed
    /\ \/ \E k \in 1..Len(analysis_threads) : ~analysis_threads[k].referenced
       \/ \E k \in 1..Len(export_threads) :
              ~export_threads[k].referenced /\ export_threads[k].state = "running"
    /\ crashed' = TRUE
    /\ outcome' = Outcome("QThread", "Destroyed while thread is still running")
    /\ ui' = UiUnread
    /\ NoGeneratorCall
    /\ UNCHANGED <<self_video_path, self_video_duration, self_clips, self_scenes,
                   self_speech_boundaries>>
    /\ UNCHANGED <<analysis_threads, analysis_result, export_threads>>
    /\ UNCHANGED <<resolverVars, detectorVars, adjustVars>>

LoadWhileRunning == ~crashed /\ LoadAnyFile

NextAnalysis ==
    \/ LoadWhileRunning
    \/ StartAnyAnalysis
    \/ AnyAnalysisFinished
    \/ DestroyedWhileRunning

SpecAnalysis == InitApp /\ [][NextAnalysis]_vars

(* Properties of the analysis thread *)

\* C22: a completed analysis run replaces the boundary data wholesale: when it
\* finishes without error, scenes and speech boundaries become exactly what
\* that run reports (empty for a kind it did not analyse, nothing of the
\* previous run survives); when it finishes with an error both stay as they
\* were.
C22_AnalysisReplacesWholesale ==
    [][outcome'[1] = "analysis_finished" =>
          \E k \in 1..Len(analysis_threads) :
              LET thread == analysis_threads[k]
              IN  /\ analysis_threads' = RemoveAt(analysis_threads, k)
                  /\ IF analysis_result'.error
                     THEN /\ self_scenes' = self_scenes
                          /\ self_speech_boundaries' = self_speech_boundaries
                     ELSE /\ self_scenes' = analysis_result'.scenes
                          /\ self_speech_boundaries' = analysis_result'.speech_boundaries
                          /\ thread.analyze_scenes =>
                                 self_scenes' = ScenesOfFile(thread.video_path)
                          /\ ~thread.analyze_scenes => self_scenes' = <<>>
                          /\ thread.analyze_audio =>
                                 self_speech_boundaries' = SpeechOfFile(thread.video_path)
                          /\ ~thread.analyze_audio => self_speech_boundaries' = <<>>]_vars

\* an audio-only run has finished: the scenes are empty, the speech
\* boundaries are the run's
C22_Witness ==
    /\ outcome = Outcome("analysis_finished", "Analysis complete")
    /\ self_scenes = <<>> /\ analysis_result.scenes = <<>>
    /\ self_speech_boundaries # <<>>
    /\ self_speech_boundaries = analysis_result.speech_boundaries
    /\ ScenesOfFile(self_video_path) # <<>>

\* C28: under every interleaving of load events and analysis completions
\* (an analysis of an earlier video ending after another video was loaded,
\* two runs in flight), the stored scenes and speech boundaries are empty or
\* the results of an analysis of the video that is loaded.
C28_BoundariesOfLoadedVideo ==
    /\ self_scenes # <<>> =>
           /\ self_video_path # NoVideo
           /\ self_scenes = ScenesOfFile(self_video_path)
    /\ self_speech_boundaries # <<>> =>
           /\ self_video_path # NoVideo
           /\ self_speech_boundaries = SpeechOfFile(self_video_path)

-----------------------------------------------------------------------------
(* The export thread.  export_clips hands self.clips itself to the thread   *)
(* (the list object, not a copy), and run walks it with enumerate while the *)
(* UI thread goes on handling events.  One step of the thread is one turn   *)
(* of the loop: the iterator reads the list once, at its index, and the     *)
(* rest of the turn works on the tuple it got.                              *)

MaxExportThreads == 1

\* the folders QFileDialog.getExistingDirectory returns: "" when cancelled
OutputFolders == {"", "out"}

\* ExportThread.__init__ and the state of run before the first turn: i is
\* the index of the list iterator; clips_at_start is the value the list had
\* when the thread was made
ExportThread(video_path, clips_list, output_folder) ==
    [video_path |-> video_path, output_folder |-> output_folder,
     clips_at_start |-> clips_list, i |-> 0, signals |-> <<>>, written |-> <<>>,
     state |-> "running", referenced |-> TRUE]

\* signals of ExportThread
Progress(count, name) == [signal |-> "progress", count |-> count, name |-> name]

Finished(success) == [signal |-> "finished", success |-> success]

\* os.path.join(self.output_folder, f"{name}.mp4") and the span written to it
OutputFile(output_folder, clip_info) ==
    [output_path |-> <<output_folder, clip_info[3], ".mp4">>,
     start |-> clip_info[1], end |-> clip_info[2]]

\* "self.export_thread = ExportThread(...)": threads that are over are
\* freed, a running one loses its name
StillRunning(threads) ==
    Unreferenced(SelectSeq(threads, LAMBDA thread : thread.state = "running"))

\* a variant that goes on with the next clip after a failure
StateAfterWrite_KeepGoing(success) == "running"

\* "success = True" goes on with the loop, every failure branch is
\* "self.finished.emit(False, ...)" and "return"
StateAfterWrite(success) == IF success THEN "running" ELSE "done"

\* export_clips
ExportClips(output_folder) ==
    /\ ~crashed
    /\ IF self_clips = <<>>
       THEN /\ outcome' = Outcome("export_clips", "No Clips")
            /\ UNCHANGED export_threads
       ELSE IF output_folder = ""
       THEN /\ outcome' = Outcome("export_clips", "No Folder")
            /\ UNCHANGED export_threads
       ELSE /\ Len(StillRunning(export_threads)) < MaxExportThreads
            /\ export_threads' =
                   Append(StillRunning(export_threads),
                          ExportThread(self_video_path, self_clips, output_folder))
            /\ outcome' = Outcome("export_clips", "Exporting")
    /\ ui' = UiUnread
    /\ NoGeneratorCall
    /\ UNCHANGED <<self_video_path, self_video_duration, self_clips, self_scenes,
                   self_speech_boundaries>>
    /\ UNCHANGED <<analysis_threads, analysis_result, crashed>>
    /\ UNCHANGED <<resolverVars, detectorVars, adjustVars>>

ExportAny == \E output_folder \in OutputFolders : ExportClips(output_folder)

\* one turn of the loop of ExportThread.run, or its end; success: the clip
\* was loaded, cut and written by one of the strategies
ExportTurn(k, success) ==
    /\ ~crashed
    /\ k \in 1..Len(export_threads)
    /\ export_threads[k].state = "running"
    /\ Readable(export_threads[k].video_path) \/ ~success
    /\ LET thread == export_threads[k]
       IN  IF thread.i < Len(self_clips)
           THEN LET clip_info == self_clips[thread.i + 1]
                    emitted == Append(thread.signals, Progress(thread.i + 1, clip_info[3]))
                IN  /\ export_threads' =
                           [export_threads EXCEPT ![k] =
                               [thread EXCEPT
                                   !.i = thread.i + 1,
                                   !.signals = IF success THEN emitted
                                               ELSE Append(emitted, Finished(FALSE)),
                                   !.written =
                                       IF success
                                       THEN Append(thread.written,
                                                   OutputFile(thread.output_folder, clip_info))
                                       ELSE thread.written,
                                   !.state = StateAfterWrite(success)]]
                    /\ outcome' = Outcome("ExportThread.run",
                                          IF success THEN "Exporting" ELSE "Error")
           ELSE /\ success
                /\ export_threads' =
                       [export_threads EXCEPT ![k] =
                           [thread EXCEPT
                               !.signals = Append(thread.signals, Finished(TRUE)),
                               !.state = "done"]]
                /\ outcome' = Outcome("ExportThread.run", "All clips exported")
    /\ ui' = UiUnread
    /\ NoGeneratorCall
    /\ UNCHANGED <<self_video_path, self_video_duration, self_clips, self_scenes,
                   self_speech_boundaries>>
    /\ UNCHANGED <<analysis_threads, analysis_result, crashed>>
    /\ UNCHANGED <<resolverVars, detectorVars, adjustVars>>

AnyExportTurn ==
    \E k \in 1..Len(export_threads), success \in BOOLEAN : ExportTurn(k, success)

\* the start typed while an export runs
ExportTexts == {Text("MM:SS", 0, 1)}

AddManualWhileRunning ==
    /\ ~crashed
    /\ \E time_text \in ExportTexts, u \in {v \in ReadableUi : v.mode = "Random"} :
           AddManualClip(time_text, ClipDurationMin, u)

ClearWhileRunning == ~crashed /\ ClearAllClips

NextExport ==
    \/ LoadWhileRunning
    \/ AddManualWhileRunning
    \/ ClearWhileRunning
    \/ ExportAny
    \/ AnyExportTurn

SpecExport == InitApp /\ [][NextExport]_vars

(* Properties of the export thread *)

ProgressCount(thread) ==
    Len(SelectSeq(thread.signals, LAMBDA sig : sig.signal = "progress"))

LastSignal(thread) == thread.signals[Len(thread.signals)]

\* finished is emitted once, as the last signal, and ends the run
FinishedOnceAndLast(thread) ==
    /\ \A j \in 1..Len(thread.signals) :
           thread.signals[j].signal = "finished" =>
               j = Len(thread.signals) /\ thread.state = "done"
    /\ thread.state = "done" =>
           thread.signals # <<>> /\ LastSignal(thread).signal = "finished"

\* progress carries 1, 2, ..., one per clip taken from the list
ProgressCountsUp(thread) ==
    /\ ProgressCount(thread) = thread.i
    /\ \A j \in 1..Len(thread.signals) :
           thread.signals[j].signal = "progress" => thread.signals[j].count = j

\* every clip started is written to {name}.mp4, but for the one that failed,
\* which is the last one started
WrittenAsNamed(thread) ==
    /\ \A j \in 1..Len(thread.written) :
           /\ j <= ProgressCount(thread)
           /\ thread.written[j].output_path =
                  <<thread.output_folder, thread.signals[j].name, ".mp4">>
    /\ Len(thread.written) =
           IF thread.state = "done" /\ ~LastSignal(thread).success
           THEN ProgressCount(thread) - 1 ELSE ProgressCount(thread)

\* the turn of thread k that this step is, if it is one
TurnOf(k) ==
    /\ outcome'[1] = "ExportThread.run"
    /\ k \in 1..Len(export_threads) /\ Len(export_threads') = Len(export_threads)
    /\ export_threads'[k] # export_threads[k]

\* C24: every export run emits finished exactly once and as its last signal;
\* finished(True) comes only when every clip of the list was written (the
\* iterator is at the end of the list and no write failed), the first clip
\* that fails gives finished(False) and no later clip is processed; progress
\* counts 1, 2, ... in the order of the list, one per clip started, and each
\* clip is written to "{name}.mp4".
C24_ExportSignals ==
    /\ [](\A k \in 1..Len(export_threads) :
              /\ FinishedOnceAndLast(export_threads[k])
              /\ ProgressCountsUp(export_threads[k])
              /\ WrittenAsNamed(export_threads[k]))
    /\ [][\A k \in 1..Len(export_threads) :
              TurnOf(k) =>
                  LET before == export_threads[k]
                      after == export_threads'[k]
                  IN  /\ before.state = "running"
                      /\ after.i > before.i =>
                             /\ after.i = before.i + 1
                             /\ after.signals[after.i] =
                                    Progress(after.i, self_clips[after.i][3])
                      /\ (after.state = "done" /\ LastSignal(after).success) =>
                             /\ before.i >= Len(self_clips)
                             /\ Len(after.written) = after.i
                      /\ (after.state = "done" /\ ~LastSignal(after).success) =>
                             /\ after.i = before.i + 1
                             /\ after.written = before.written]_vars

\* a run of two clips whose second clip failed: progress 1, progress 2,
\* finished(False), one file written
C24_Witness ==
    \E k \in 1..Len(export_threads) :
        LET thread == export_threads[k]
        IN  /\ thread.state = "done"
            /\ Len(thread.signals) = 3
            /\ ~LastSignal(thread).success
            /\ Len(thread.written) = 1
            /\ thread.written[1] = OutputFile(thread.output_folder, thread.clips_at_start[1])

\* C29: an export run exports exactly the clips that were in the ClipSet
\* when it was started, each once and in order, whatever the UI thread does
\* to the ClipSet while the run goes on: what a run has written is the
\* beginning of its clips at the start, and all of them once it has emitted
\* finished(True).
C29_ExportsClipsAtStart ==
    \A k \in 1..Len(export_threads) :
        LET thread == export_threads[k]
            expected == [j \in 1..Len(thread.clips_at_start) |->
                            OutputFile(thread.output_folder, thread.clips_at_start[j])]
        IN  /\ Len(thread.written) <= Len(expected)
            /\ thread.written = SubSeq(expected, 1, Len(thread.written))
            /\ (thread.state = "done" /\ LastSignal(thread).success) =>
                   thread.written = expected

=============================================================================
